---- MODULE Spec2Model ----
(***************************************************************************)
(* Model of gp_mpc/model_class.py: class Model (construction, integrate,   *)
(* sim, generate_training_data).                                           *)
(*                                                                         *)
(* Numbers are fixed-point integers: one unit is 5e-7, so the clipping     *)
(* floor 1e-6 of sim is 2 units and one value (1) lies strictly between 0  *)
(* and the floor.  A vector is a sequence; a matrix is a record            *)
(* [nr, nc, d] (numpy shape and the sequence of its rows), so that an      *)
(* empty matrix keeps its column count.  An optional argument is <<>>      *)
(* (Python None) or <<v>>.                                                 *)
(*                                                                         *)
(* No method writes a field of the object after __init__, so a call does   *)
(* not depend on the calls before it: a behaviour constructs one object    *)
(* and makes one call on it.                                               *)
(***************************************************************************)
EXTENDS Integers, Sequences, FiniteSets

VARIABLES ctor, model, pc, call, ret, calls

vars == <<ctor, model, pc, call, ret, calls>>

\* ------------------------------------------------------------------ bounds

\* Longest simulation horizon (rows of u) of a sim call.
MaxNt == 2
\* Largest sample count N of a generate_training_data call.
MaxN == 2
\* The integrator stand-in saturates its result at +-VMax.
VMax == 4

\* min=1e-6 of Y.clip, in units of 5e-7.
ClipMin == 2

\* ------------------------------------------------------------- basic data

None == <<>>
Some(v) == <<v>>

RECURSIVE Sum(_)
Sum(s) == IF s = <<>> THEN 0 ELSE s[1] + Sum(Tail(s))

Max(a, b) == IF a >= b THEN a ELSE b
Min(a, b) == IF a <= b THEN a ELSE b

\* All vectors of length n over the set S.
Vecs(n, S) == [1..n -> S]

\* np.zeros((nr, nc))
Zeros(nr, nc) == [nr |-> nr, nc |-> nc, d |-> [i \in 1..nr |-> [j \in 1..nc |-> 0]]]

\* Y[t, :] = row
SetRow(Y, t, row) == [Y EXCEPT !.d[t] = row]

\* np.hstack([A, B]) of two matrices with the same number of rows
HStack(A, B) ==
    [nr |-> A.nr, nc |-> A.nc + B.nc, d |-> [i \in 1..A.nr |-> A.d[i] \o B.d[i]]]

\* ------------------------------------------------------------ the sets the
\* inputs are drawn from

NxVals == {1, 2}
NuVals == {1}
\* ode is one of two dynamics, dx = +-(1 + sum of the parameter vector + sum of z)
OdeVals == {-1, 1}
DtVals == {1}
\* <<Nz, alg given, Np>>: every way to declare algebraic variables and
\* parameters.
PathVals == {0, 1} \X BOOLEAN \X {0, 1}
\* R is known by its shape only; its entries are reals the noise draw hides.
\* The shapes tried for a model of Nx states: omitted, Nx by Nx, and two
\* wrong ones.
RArg(kind, Nx) ==
    CASE kind = "omitted" -> None
      [] kind = "ok" -> Some([nr |-> Nx, nc |-> Nx])
      [] kind = "wide" -> Some([nr |-> Nx, nc |-> Nx + 1])
      [] kind = "big" -> Some([nr |-> Nx + 1, nc |-> Nx + 1])
RKinds == {"omitted", "ok", "wide", "big"}
XVals == {-2, 1}
UVals == {0, 1}
PVals == {1}
NoiseVals == {-1, 1}

\* Constructor arguments: the product of the given sets.
CtorArgs(NxS, OdeS, RS, PathS, ClipS) ==
    {[Nx |-> Nx, Nu |-> Nu, ode |-> ode, dt |-> dt, R |-> RArg(rk, Nx),
      alg |-> path[2], Nz |-> path[1], Np |-> path[3], clip_negative |-> clip] :
        Nx \in NxS, Nu \in NuVals, ode \in OdeS, dt \in DtVals, rk \in RS,
        path \in PathS, clip \in ClipS}

\* ------------------------------------------------------------ construction

\* np.eye(self.__Ny) * 1e-3 (line 40): reading self.__Ny raises
\* AttributeError, since no line of the class assigns __Ny (lines 44-49 assign
\* __dt, __Nu, __Nx, __Nz, __Np and __clip_negative, after line 40).
DefaultR == [raised |-> "AttributeError", R |-> [nr |-> 0, nc |-> 0]]

\* Lines 38-42: the noise covariance the object keeps; a supplied R is kept as
\* it is.
InitR(R) ==
    IF R = None THEN DefaultR ELSE [raised |-> "", R |-> R[1]]

\* Lines 67-74: the integrator handle.  dae is TRUE when the algebraic
\* equations (z, alg) were added to the dae dictionary; ode and tf = dt
\* determine the map the handle computes.
MakeIntegrator(ode, dt, alg) == [ode |-> ode, tf |-> dt, dae |-> alg]

\* Model.__init__: the object, or the exception raised.  has_alg0 says
\* whether the attribute __alg0 was created (lines 68-70).
NewModelChecksR(Nx, Nu, ode, dt, R, alg, Nz, Np, clip_negative) ==
    LET r == InitR(R) IN
    IF r.raised # "" THEN [raised |-> r.raised, obj |-> None]
    ELSE IF r.R # [nr |-> Nx, nc |-> Nx] THEN [raised |-> "ValueError", obj |-> None]
    ELSE [raised |-> "",
          obj |-> Some([R |-> r.R, dt |-> dt, Nu |-> Nu, Nx |-> Nx, Nz |-> Nz,
                        Np |-> Np, clip_negative |-> clip_negative,
                        has_alg0 |-> alg,
                        I |-> MakeIntegrator(ode, dt, alg)])]

NewModel(Nx, Nu, ode, dt, R, alg, Nz, Np, clip_negative) ==
    LET r == InitR(R) IN
    IF r.raised # "" THEN [raised |-> r.raised, obj |-> None]
    ELSE [raised |-> "",
          obj |-> Some([R |-> r.R, dt |-> dt, Nu |-> Nu, Nx |-> Nx, Nz |-> Nz,
                        Np |-> Np, clip_negative |-> clip_negative,
                        has_alg0 |-> alg,
                        I |-> MakeIntegrator(ode, dt, alg)])]

\* -------------------------------------------------------------- integrate

Sat(v) == Max(0 - VMax, Min(VMax, v))

\* The integrator handle, an opaque deterministic map
\* (x0, p, z0) -> xf: here x0 + tf * ode * (1 + sum p + sum z0) in every
\* component, saturated.
IntegratorCall(I, x0, p, z0) ==
    [j \in 1..Len(x0) |-> Sat(x0[j] + I.tf * I.ode * (1 + Sum(p) + Sum(z0)))]

\* self.__alg0(x0, u): the initial guess of the Nz algebraic variables.
Alg0(Nz, x0, u) == [k \in 1..Nz |-> Sum(x0) + Sum(u)]

\* Model.integrate (lines 116-122): what was handed to the integrator
\* (None when the call raised before reaching it) and the vector returned.
\* "self.__Nz is not 0" is Nz # 0 for a Python int Nz.  The branch reads
\* self.__alg0, which exists only when alg was given to __init__.
IntegrateParOnDae(m, x0, u, p) ==
    LET par == u \o p IN
    IF m.Nz # 0
    THEN IF ~m.has_alg0
         THEN [raised |-> "AttributeError", handed |-> None, x |-> <<>>]
         ELSE LET z0 == Alg0(m.Nz, x0, u) IN
              [raised |-> "",
               handed |-> Some([x0 |-> x0, p |-> par, z0 |-> Some(z0)]),
               x |-> IntegratorCall(m.I, x0, par, z0)]
    ELSE [raised |-> "",
          handed |-> Some([x0 |-> x0, p |-> par, z0 |-> None]),
          x |-> IntegratorCall(m.I, x0, par, <<>>)]

Integrate(m, x0, u, p) ==
    LET par == u \o p IN
    IF m.Nz # 0
    THEN IF ~m.has_alg0
         THEN [raised |-> "AttributeError", handed |-> None, x |-> <<>>]
         ELSE LET z0 == Alg0(m.Nz, x0, u) IN
              [raised |-> "",
               handed |-> Some([x0 |-> x0, p |-> u, z0 |-> Some(z0)]),
               x |-> IntegratorCall(m.I, x0, u, z0)]
    ELSE [raised |-> "",
          handed |-> Some([x0 |-> x0, p |-> par, z0 |-> None]),
          x |-> IntegratorCall(m.I, x0, par, <<>>)]

\* One entry of the log of integrate calls of the running operation.
CallRecord(x0, u, p, r) ==
    [x0 |-> x0, u |-> u, p |-> p, handed |-> r.handed, xf |-> r.x,
     raised |-> r.raised]

\* -------------------------------------------------------------------- sim

\* np.random.multivariate_normal(np.zeros(Nx), R): numpy rejects a covariance
\* that is not Nx by Nx; otherwise the draw is some vector of length Nx, here
\* the one the environment chose.
MultivariateNormal(Nx, R, draw) ==
    IF R.nr = Nx /\ R.nc = Nx
    THEN [raised |-> "", v |-> draw]
    ELSE [raised |-> "ValueError", v |-> <<>>]

\* row += v
AddVec(row, v) == [j \in 1..Len(row) |-> row[j] + v[j]]

\* np.any(Y < 0)
AnyNegative(Y) == \E i \in 1..Y.nr : \E j \in 1..Y.nc : Y.d[i][j] < 0

\* Y.clip(min=1e-6)
Clip(Y) == [Y EXCEPT !.d = [i \in 1..Y.nr |-> [j \in 1..Y.nc |-> Max(Y.d[i][j], ClipMin)]]]

\* Lines 162-165: the whole matrix is clipped when clipping is on and any
\* entry is negative.
ClipIfNegative(m, Y) == IF m.clip_negative /\ AnyNegative(Y) THEN Clip(Y) ELSE Y

\* Lines 147-151: the input and parameter rows of step t.
StepUFirstRow(u, t) == u.d[1]
StepU(u, t) == u.d[t]
StepP(p, t) == IF p # None THEN p[1].d[t] ELSE <<>>

\* The loop state of sim: x (the state carried), Y, the log of integrate
\* calls, produced (row t as integration plus noise produced it, before any
\* clipping) and the exception raised, if any.
SimStart(m, x0, Nt) ==
    [x |-> x0, Y |-> Zeros(Nt, m.Nx), log |-> <<>>, produced |-> <<>>,
     raised |-> ""]

\* One iteration of the loop of sim (lines 147-165), t counted from 1.
SimStepNoiseFeedsBack(m, s, u, p, noise, draws, t) ==
    LET u_t == StepU(u, t)
        p_t == StepP(p, t)
        r == Integrate(m, s.x, u_t, p_t)
        log == Append(s.log, CallRecord(s.x, u_t, p_t, r))
    IN IF r.raised # "" THEN [s EXCEPT !.log = log, !.raised = r.raised]
       ELSE LET Y1 == SetRow(s.Y, t, r.x)
                n == IF noise THEN MultivariateNormal(m.Nx, m.R, draws[t])
                     ELSE [raised |-> "", v |-> [j \in 1..m.Nx |-> 0]]
            IN IF n.raised # ""
               THEN [s EXCEPT !.x = r.x, !.Y = Y1, !.log = log, !.raised = n.raised]
               ELSE LET Y2 == SetRow(Y1, t, AddVec(Y1.d[t], n.v)) IN
                    [x |-> Y2.d[t], Y |-> ClipIfNegative(m, Y2), log |-> log,
                     produced |-> Append(s.produced, Y2.d[t]), raised |-> ""]

SimStep(m, s, u, p, noise, draws, t) ==
    LET u_t == StepU(u, t)
        p_t == StepP(p, t)
        r == Integrate(m, s.x, u_t, p_t)
        log == Append(s.log, CallRecord(s.x, u_t, p_t, r))
    IN IF r.raised # "" THEN [s EXCEPT !.log = log, !.raised = r.raised]
       ELSE LET Y1 == SetRow(s.Y, t, r.x)
                n == IF noise THEN MultivariateNormal(m.Nx, m.R, draws[t])
                     ELSE [raised |-> "", v |-> [j \in 1..m.Nx |-> 0]]
            IN IF n.raised # ""
               THEN [s EXCEPT !.x = r.x, !.Y = Y1, !.log = log, !.raised = n.raised]
               ELSE LET Y2 == SetRow(Y1, t, AddVec(Y1.d[t], n.v)) IN
                    [x |-> r.x, Y |-> ClipIfNegative(m, Y2), log |-> log,
                     produced |-> Append(s.produced, Y2.d[t]), raised |-> ""]

\* for t in range(Nt): an exception leaves the loop.
RECURSIVE SimLoop(_, _, _, _, _, _, _)
SimLoop(m, s, u, p, noise, draws, t) ==
    IF t > u.nr \/ s.raised # "" THEN s
    ELSE SimLoop(m, SimStep(m, s, u, p, noise, draws, t), u, p, noise, draws,
                 t + 1)

\* Model.sim (lines 138-166); Nt = np.size(u, 0).
Sim(m, x0, u, p, noise, draws) ==
    SimLoop(m, SimStart(m, x0, u.nr), u, p, noise, draws, 1)

\* ------------------------------------------------- generate_training_data

\* The number 1.0 in model units (ClipMin is 1e-6).
One == 1000000 * ClipMin

\* The design sampler pyDOE.lhs(dim, samples=N) returns an N by dim matrix
\* with entries in [0, 1].  The matrices tried have rows that are rotations of
\* (0, 1/2, 1): row i is the rotation starting at the f[i]-th of them, for f
\* in the family F of index sequences.
DesignRow(dim, c) ==
    [j \in 1..dim |-> CASE (c + j) % 3 = 0 -> 0
                        [] (c + j) % 3 = 1 -> One \div 2
                        [] OTHER -> One]
Lhs(dim, N, F) ==
    {[nr |-> N, nc |-> dim, d |-> [i \in 1..N |-> DesignRow(dim, f[i])]] : f \in F}

\* Index sequences: every row free, or every row one rotation further than
\* the row before.
FreeRows(N) == [1..N -> 0..2]
RotatingRows(N) == {[i \in 1..N |-> c + i] : c \in 0..2}

\* row * (ub - lb) + lb, elementwise (lines 201, 209, 215); row is a fraction
\* of One.
RescaleRowNoOffset(row, ub, lb) ==
    [j \in 1..Len(row) |-> (row[j] * (ub[j] - lb[j])) \div One]
RescaleRow(row, ub, lb) ==
    [j \in 1..Len(row) |-> (row[j] * (ub[j] - lb[j])) \div One + lb[j]]

\* for k in range(N): D[k, :] = D[k, :] * (ub - lb) + lb
Rescale(D, ub, lb) == [D EXCEPT !.d = [k \in 1..D.nr |-> RescaleRow(D.d[k], ub, lb)]]

\* Lines 212-215: the parameter matrix stays in the unit cube without bounds.
ParMatrix(D, pub, plb) == IF pub # None THEN Rescale(D, pub[1], plb[1]) ELSE D

\* One iteration of the sample loop (lines 219-229), i counted from 1.
GenStepChained(m, s, X, U, par, noise, draws, i) ==
    LET u_t == U.d[i]
        x_t == IF i = 1 THEN X.d[i] ELSE s.Y.d[i - 1]
        p_t == par.d[i]
        r == Integrate(m, x_t, u_t, p_t)
        log == Append(s.log, CallRecord(x_t, u_t, p_t, r))
    IN IF r.raised # "" THEN [s EXCEPT !.log = log, !.raised = r.raised]
       ELSE LET Y1 == SetRow(s.Y, i, r.x)
                n == IF noise THEN MultivariateNormal(m.Nx, m.R, draws[i])
                     ELSE [raised |-> "", v |-> [j \in 1..m.Nx |-> 0]]
            IN IF n.raised # ""
               THEN [Y |-> Y1, log |-> log, raised |-> n.raised]
               ELSE [Y |-> SetRow(Y1, i, AddVec(Y1.d[i], n.v)), log |-> log,
                     raised |-> ""]

GenStep(m, s, X, U, par, noise, draws, i) ==
    LET u_t == U.d[i]
        x_t == X.d[i]
        p_t == par.d[i]
        r == Integrate(m, x_t, u_t, p_t)
        log == Append(s.log, CallRecord(x_t, u_t, p_t, r))
    IN IF r.raised # "" THEN [s EXCEPT !.log = log, !.raised = r.raised]
       ELSE LET Y1 == SetRow(s.Y, i, r.x)
                n == IF noise THEN MultivariateNormal(m.Nx, m.R, draws[i])
                     ELSE [raised |-> "", v |-> [j \in 1..m.Nx |-> 0]]
            IN IF n.raised # ""
               THEN [Y |-> Y1, log |-> log, raised |-> n.raised]
               ELSE [Y |-> SetRow(Y1, i, AddVec(Y1.d[i], n.v)), log |-> log,
                     raised |-> ""]

\* for i in range(N): an exception leaves the loop.
RECURSIVE GenLoop(_, _, _, _, _, _, _, _, _)
GenLoop(m, s, N, X, U, par, noise, draws, i) ==
    IF i > N \/ s.raised # "" THEN s
    ELSE GenLoop(m, GenStep(m, s, X, U, par, noise, draws, i), N, X, U, par,
                 noise, draws, i + 1)

\* Z = np.hstack([X, U]) (line 232).
StackZStatesOnly(X, U) == X
StackZ(X, U) == HStack(X, U)

\* Model.generate_training_data (lines 186-233).  dU, dX, dPar are the three
\* designs the sampler returned, draws the noise vectors numpy would return.
GenerateTrainingData(m, N, uub, ulb, xub, xlb, pub, plb, noise, dU, dX, dPar, draws) ==
    LET U == Rescale(dU, uub, ulb)
        X == Rescale(dX, xub, xlb)
        par == ParMatrix(dPar, pub, plb)
        s == GenLoop(m, [Y |-> Zeros(N, m.Nx), log |-> <<>>, raised |-> ""],
                     N, X, U, par, noise, draws, 1)
    IN [raised |-> s.raised, Z |-> StackZ(X, U), Y |-> s.Y, par |-> par,
        log |-> s.log]

\* ------------------------------------------------------------------ state

M == model[1]

Init ==
    /\ ctor = None
    /\ model = None
    /\ pc = "new"
    /\ call = [op |-> "none"]
    /\ ret = [raised |-> ""]
    /\ calls = <<>>

\* Model(Nx, Nu, ode, dt, R, alg, alg_0, Nz, Np, clip_negative=...)
Construct(Nx, Nu, ode, dt, R, alg, Nz, Np, clip_negative) ==
    /\ pc = "new"
    /\ LET r == NewModel(Nx, Nu, ode, dt, R, alg, Nz, Np, clip_negative) IN
       /\ model' = r.obj
       /\ pc' = IF r.raised = "" THEN "ready" ELSE "failed"
       /\ ret' = [raised |-> r.raised]
    /\ ctor' = Some([Nx |-> Nx, Nu |-> Nu, ode |-> ode, dt |-> dt, R |-> R,
                     alg |-> alg, Nz |-> Nz, Np |-> Np,
                     clip_negative |-> clip_negative])
    /\ UNCHANGED <<call, calls>>

\* model.integrate(x0, u, p)
DoIntegrate(x0, u, p) ==
    /\ pc = "ready"
    /\ LET r == Integrate(M, x0, u, p) IN
       /\ ret' = [raised |-> r.raised, x |-> r.x]
       /\ calls' = <<CallRecord(x0, u, p, r)>>
       /\ pc' = IF r.raised = "" THEN "returned" ELSE "raised"
    /\ call' = [op |-> "integrate", x0 |-> x0, u |-> u, p |-> p]
    /\ UNCHANGED <<ctor, model>>

\* A construction with arguments from the set S.
ConstructFrom(S) ==
    /\ pc = "new"
    /\ \E a \in S :
        Construct(a.Nx, a.Nu, a.ode, a.dt, a.R, a.alg, a.Nz, a.Np, a.clip_negative)

ConstructInt ==
    ConstructFrom(CtorArgs(NxVals, OdeVals, RKinds, PathVals, BOOLEAN))

IntegrateAny ==
    /\ pc = "ready"
    /\ \E x0 \in Vecs(M.Nx, XVals), u \in Vecs(M.Nu, UVals),
          p \in Vecs(M.Np, PVals) :
        DoIntegrate(x0, u, p)

NextInt == ConstructInt \/ IntegrateAny

SpecInt == Init /\ [][NextInt]_vars

\* model.sim(x0, u, p, noise); draws are the noise vectors numpy would
\* return at steps 1..Nt.
DoSim(x0, u, p, noise, draws) ==
    /\ pc = "ready"
    /\ LET s == Sim(M, x0, u, p, noise, draws) IN
       /\ ret' = [raised |-> s.raised, Y |-> s.Y, produced |-> s.produced]
       /\ calls' = s.log
       /\ pc' = IF s.raised = "" THEN "returned" ELSE "raised"
    /\ call' = [op |-> "sim", x0 |-> x0, u |-> u, p |-> p, noise |-> noise,
                draws |-> draws]
    /\ UNCHANGED <<ctor, model>>

\* All nr by nc matrices over S.
Mats(nr, nc, S) == {[nr |-> nr, nc |-> nc, d |-> d] : d \in [1..nr -> Vecs(nc, S)]}

\* The draws a call can see: none without noise, and none that matter when
\* numpy rejects R.
DrawsFor(m, noise, n) ==
    IF noise /\ m.R.nr = m.Nx /\ m.R.nc = m.Nx
    THEN [1..n -> Vecs(m.Nx, NoiseVals)]
    ELSE {[t \in 1..n |-> [j \in 1..m.Nx |-> 0]]}

SimAny ==
    /\ pc = "ready"
    /\ \E Nt \in 0..MaxNt :
       \E x0 \in Vecs(M.Nx, XVals), u \in Mats(Nt, M.Nu, UVals),
          p \in {None} \cup {Some(P) : P \in Mats(Nt, M.Np, PVals)},
          noise \in BOOLEAN :
       \E draws \in DrawsFor(M, noise, Nt) :
        DoSim(x0, u, p, noise, draws)

\* sim is tried on the plain ODE path with and without parameters, on the DAE
\* path, and on a model that declares Nz > 0 without alg.
SimPaths == {<<0, FALSE, 0>>, <<0, FALSE, 1>>, <<1, TRUE, 1>>, <<1, FALSE, 0>>}

ConstructSim ==
    ConstructFrom(CtorArgs(NxVals, OdeVals, {"omitted", "ok", "wide"}, SimPaths, BOOLEAN))

NextSim == ConstructSim \/ SimAny

SpecSim == Init /\ [][NextSim]_vars

\* model.generate_training_data(N, uub, ulb, xub, xlb, pub, plb, noise)
DoGenerate(N, uub, ulb, xub, xlb, pub, plb, noise, dU, dX, dPar, draws) ==
    /\ pc = "ready"
    /\ LET g == GenerateTrainingData(M, N, uub, ulb, xub, xlb, pub, plb, noise,
                                     dU, dX, dPar, draws) IN
       /\ ret' = IF g.raised = ""
                 THEN [raised |-> "", Z |-> g.Z, Y |-> g.Y, par |-> g.par]
                 ELSE [raised |-> g.raised]
       /\ calls' = g.log
       /\ pc' = IF g.raised = "" THEN "returned" ELSE "raised"
    /\ call' = [op |-> "generate_training_data", N |-> N, uub |-> uub,
                ulb |-> ulb, xub |-> xub, xlb |-> xlb, pub |-> pub, plb |-> plb,
                noise |-> noise]
    /\ UNCHANGED <<ctor, model>>

\* The ranges tried for a block of dim columns, as <<ub, lb>>: an ordinary
\* one with a different range in every column, and one with lb above ub.
Ranges(dim) ==
    {<<[j \in 1..dim |-> 2 * j + 2], [j \in 1..dim |-> 0 - 2 * j]>>,
     <<[j \in 1..dim |-> 0 - 2], [j \in 1..dim |-> 4]>>}
InputRanges(dim) ==
    {<<[j \in 1..dim |-> 6], [j \in 1..dim |-> 2]>>}

\* The noise vectors tried in generate_training_data: the same value in every
\* component of every row.
GenDrawsFor(m, noise, n) ==
    IF noise /\ m.R.nr = m.Nx /\ m.R.nc = m.Nx
    THEN {[t \in 1..n |-> [j \in 1..m.Nx |-> v]] : v \in NoiseVals}
    ELSE {[t \in 1..n |-> [j \in 1..m.Nx |-> 0]]}

GenerateAny ==
    /\ pc = "ready"
    /\ \E N \in 0..MaxN :
       \E ur \in InputRanges(M.Nu), xr \in Ranges(M.Nx),
          pr \in {None} \cup {Some(r) : r \in InputRanges(M.Np)},
          noise \in BOOLEAN :
       \E dU \in Lhs(M.Nu, N, RotatingRows(N)), dX \in Lhs(M.Nx, N, FreeRows(N)),
          dPar \in Lhs(M.Np, N, RotatingRows(N)) :
       \E draws \in GenDrawsFor(M, noise, N) :
        DoGenerate(N, ur[1], ur[2], xr[1], xr[2],
                   IF pr = None THEN None ELSE Some(pr[1][1]),
                   IF pr = None THEN None ELSE Some(pr[1][2]),
                   noise, dU, dX, dPar, draws)

\* generate_training_data is tried on the plain ODE path with and without
\* parameters and on the DAE path.
GenPaths == {<<0, FALSE, 0>>, <<0, FALSE, 1>>, <<1, TRUE, 1>>}

ConstructGen ==
    ConstructFrom(CtorArgs(NxVals, {1}, {"omitted", "ok", "big"}, GenPaths, {FALSE}))

NextGen == ConstructGen \/ GenerateAny

SpecGen == Init /\ [][NextGen]_vars

\* Every operation, on the models of the plain ODE path built with each kind
\* of R.
ConstructPlain ==
    ConstructFrom(CtorArgs(NxVals, {1}, RKinds, {<<0, FALSE, 0>>}, {FALSE}))

Next == ConstructPlain \/ IntegrateAny \/ SimAny \/ GenerateAny

Spec == Init /\ [][Next]_vars

\* ----------------------------------------------------------- claims on sim

IsSim == call.op = "sim"
SimReturned == IsSim /\ pc = "returned"

\* Nt sequential integrate calls from x, each result fed forward: the
\* results of steps t..Nt.
RECURSIVE Chain(_, _, _, _, _)
Chain(m, x, u, p, t) ==
    IF t > u.nr THEN <<>>
    ELSE LET xf == Integrate(m, x, u.d[t], IF p = None THEN <<>> ELSE p[1].d[t]).x
         IN <<xf>> \o Chain(m, xf, u, p, t + 1)

HasShape(Y, nr, nc) ==
    /\ Y.nr = nr /\ Y.nc = nc /\ Len(Y.d) = nr
    /\ \A i \in 1..nr : Len(Y.d[i]) = nc

NegativeIn(rows) == \E i \in 1..Len(rows) : \E j \in 1..Len(rows[i]) : rows[i][j] < 0

\* C1 as stated: with noise disabled, for every model, the matrix sim returns
\* has Nt rows and Nx columns and its row t is the t-th result of the chain of
\* Nt integrate calls from x0.
C1_SimEqualsChain ==
    (SimReturned /\ ~call.noise) =>
        /\ HasShape(ret.Y, call.u.nr, M.Nx)
        /\ ret.Y.d = Chain(M, call.x0, call.u, call.p, 1)

\* C1 amended: the same, for the models built with clip_negative off and for
\* the runs whose chain has no negative entry; the shape is Nt by Nx always.
C1_SimEqualsChainUnclipped ==
    (SimReturned /\ ~call.noise) =>
        /\ HasShape(ret.Y, call.u.nr, M.Nx)
        /\ (~M.clip_negative \/ ~NegativeIn(Chain(M, call.x0, call.u, call.p, 1)))
              => ret.Y.d = Chain(M, call.x0, call.u, call.p, 1)

\* A noise-free run of MaxNt steps, with per-step parameters, on a model with
\* clipping on, whose rows differ and are not negative.
C1_Witness ==
    /\ SimReturned /\ ~call.noise /\ M.clip_negative
    /\ call.u.nr = MaxNt /\ call.p # None /\ M.Np > 0
    /\ ~NegativeIn(ret.produced)
    /\ ret.Y.d[1] # ret.Y.d[MaxNt]

\* C2 as stated: with clip_negative on, once some row produced by integration
\* (plus noise) has a negative entry, every entry of the returned matrix is at
\* least the floor.
C2_ClippedEverywhere ==
    (SimReturned /\ M.clip_negative /\ NegativeIn(ret.produced)) =>
        \A i \in 1..ret.Y.nr : \A j \in 1..ret.Y.nc : ret.Y.d[i][j] >= ClipMin

\* C3: with noise enabled, the first integrate call starts from x0 and every
\* later one from the state the previous call returned, which is the
\* integrator's result for that call's arguments; the draw of step t is added
\* to the recorded row only.
C3_NoiseNotFedBack ==
    (IsSim /\ call.noise) =>
        /\ Len(calls) > 0 => calls[1].x0 = call.x0
        /\ \A t \in 1..Len(calls) :
              calls[t].xf = Integrate(M, calls[t].x0, calls[t].u, calls[t].p).x
        /\ \A t \in 1..(Len(calls) - 1) : calls[t + 1].x0 = calls[t].xf
        /\ \A t \in 1..Len(ret.produced) :
              ret.produced[t] = AddVec(calls[t].xf, call.draws[t])
        /\ (pc = "returned" /\ ~M.clip_negative) => ret.Y.d = ret.produced

\* A noisy run of MaxNt steps that returned, with a clipped matrix.
C3_Witness ==
    /\ SimReturned /\ call.noise /\ call.u.nr = MaxNt /\ MaxNt >= 2
    /\ Len(calls) = MaxNt
    /\ calls[2].x0 # ret.produced[1]
    /\ ret.Y.d # ret.produced

\* ---------------------------------------- claims on generate_training_data

IsGen == call.op = "generate_training_data"
GenReturned == IsGen /\ pc = "returned"

\* The state block and the input block of row i of Z.
StateOf(Z, i) == SubSeq(Z.d[i], 1, M.Nx)
InputOf(Z, i) == SubSeq(Z.d[i], M.Nx + 1, M.Nx + M.Nu)

\* C4: with noise disabled, row i of Y is integrate(state_i, input_i,
\* parameter_i) for the state and input blocks of row i of Z and the i-th
\* parameter row, and the i-th integrate call started from state_i, not from
\* a state another sample returned.
C4_RowsAreOneStep ==
    (GenReturned /\ ~call.noise) =>
        /\ Len(calls) = call.N
        /\ \A i \in 1..call.N :
            /\ ret.Y.d[i] = Integrate(M, StateOf(ret.Z, i), InputOf(ret.Z, i),
                                      ret.par.d[i]).x
            /\ calls[i].x0 = StateOf(ret.Z, i)
            /\ calls[i].u = InputOf(ret.Z, i)
            /\ calls[i].p = ret.par.d[i]

\* A noise-free data set of MaxN rows whose second sample does not start
\* where the first ended, nor where it started.
C4_Witness ==
    /\ GenReturned /\ ~call.noise /\ call.N = MaxN /\ MaxN >= 2
    /\ calls[2].x0 # calls[1].xf
    /\ calls[2].x0 # calls[1].x0
    /\ M.Np > 0

Ordered(lb, ub) == \A j \in 1..Len(lb) : lb[j] <= ub[j]
Within(v, lb, ub) == \A j \in 1..Len(v) : lb[j] <= v[j] /\ v[j] <= ub[j]

\* C6: when xlb <= xub and ulb <= uub, every state passed to integrate lies
\* in [xlb, xub] and every input in [ulb, uub], column by column, and the
\* rows of Z are these same states and inputs.
C6_WithinBounds ==
    (IsGen /\ Ordered(call.xlb, call.xub) /\ Ordered(call.ulb, call.uub)) =>
        /\ \A i \in 1..Len(calls) :
            /\ Within(calls[i].x0, call.xlb, call.xub)
            /\ Within(calls[i].u, call.ulb, call.uub)
        /\ pc = "returned" =>
            \A i \in 1..call.N :
                /\ Within(StateOf(ret.Z, i), call.xlb, call.xub)
                /\ Within(InputOf(ret.Z, i), call.ulb, call.uub)
                /\ calls[i].x0 = StateOf(ret.Z, i)
                /\ calls[i].u = InputOf(ret.Z, i)

\* A data set whose states reach both ends of a range that does not start
\* at 0, in the second state column.
C6_Witness ==
    /\ GenReturned /\ M.Nx = 2 /\ call.N >= 2
    /\ Ordered(call.xlb, call.xub) /\ call.xlb[2] # 0 /\ call.xlb[2] < call.xub[2]
    /\ \E i \in 1..call.N : ret.Z.d[i][2] = call.xlb[2]
    /\ \E i \in 1..call.N : ret.Z.d[i][2] = call.xub[2]

\* ---------------------------------------------------- claims on __init__

Constructed == ctor # None
RShapeOk == M.R.nr = M.Nx /\ M.R.nc = M.Nx

\* C7 as stated: construction with R omitted succeeds and leaves an Nx by Nx
\* default covariance in the model.
C7_DefaultR ==
    (Constructed /\ ctor[1].R = None) =>
        /\ pc # "failed"
        /\ model # None
        /\ M.R = [nr |-> ctor[1].Nx, nc |-> ctor[1].Nx]

IsIntegrate == call.op = "integrate"

C10_PathAgrees ==
    IsIntegrate =>
        /\ pc = "returned"
        /\ calls[1].handed # None
        /\ (calls[1].handed[1].z0 # None) <=> ctor[1].alg

====
